---- MODULE Spec2Model ----
(***************************************************************************)
(* Model of the rustler transaction ledger engine (TransactionService),    *)
(* the category resolver (CategoryService), the rule engine's evaluate     *)
(* (RuleService::apply_rules_to_transaction) and the transaction+rule      *)
(* orchestrator (TransactionRuleService), over the relational store.       *)
(*                                                                         *)
(* Modelling conventions                                                   *)
(*  - Option<T> is a sequence of length <= 1: None == <<>>, Some(x) ==     *)
(*    <<x>>.                                                               *)
(*  - Text (String) is a sequence of characters.                           *)
(*  - f64 amounts and balances are integers (units of the smallest         *)
(*    amount) plus the value NaN for the non-finite floats; rounding of    *)
(*    binary floating point is not modelled.                               *)
(*  - UUIDs are naturals; Uuid::new_v4() is the next unused natural.       *)
(*  - A store transaction (sqlx::Transaction) works on a private copy of   *)
(*    the tables and replaces the committed tables on commit; dropping it  *)
(*    on an error return discards the copy.  Statements issued on the pool *)
(*    (self.db) write the committed tables directly.                       *)
(***************************************************************************)
EXTENDS Integers, Sequences, FiniteSets, TLC

(* ------------------------------ bounds --------------------------------- *)
MaxTxns == 2        \* transaction rows ever inserted in a run
MaxAmt == 2         \* largest amount of a request

(* ------------------------------ values --------------------------------- *)
None == <<>>
Some(x) == <<x>>
IsSome(o) == Len(o) = 1
Unwrap(o) == o[1]

NaN == 1000         \* stands for the non-finite f64 values (NaN, +inf, -inf)
is_finite(x) == x # NaN
FiniteAmounts == {-1, 0, MaxAmt}
Amounts == FiniteAmounts \cup {NaN}

\* texts: account names, descriptions, destination names, category names
NameA == <<"A">>
NameB == <<"B">>
CoffeeShop == <<"C", "o", "S">>
Coffee == <<"C", "o">>
Food == <<"F">>
Dining == <<"D">>
EmptyText == <<>>

\* the accounts table right after account CRUD set it up (spec section 8)
AccountA == 1
AccountB == 2
NoAccount == 9      \* a UUID that names no account row
InitAccounts == (AccountA :> [name |-> NameA, account_type |-> "On Budget", balance |-> 10]) @@ (AccountB :> [name |-> NameB, account_type |-> "External", balance |-> 0])
BudgetIds == {1}    \* rows of the budgets table
NoBudget == 7       \* a UUID that names no budget row

Max(S) == CHOOSE x \in S : \A y \in S : y <= x
\* chrono::Utc::now(): the clock reads later at every creation, so the
\* reading taken while creating the transaction numbered txid is txid
Now(txid) == txid
FreshId(used) == IF used = {} THEN 1 ELSE Max(used) + 1

abs(x) == IF x >= 0 THEN x ELSE -x

(* ------------------------- results of a call --------------------------- *)
Ok(v) == [ok |-> TRUE, err |-> "", val |-> v]
Err(e) == [ok |-> FALSE, err |-> e, val |-> None]

(* --------------------------- account store ----------------------------- *)
\* UPDATE accounts SET balance = balance + d WHERE id = $3
UpdateBalance(accts, id, d) == IF id \in DOMAIN accts THEN [accts EXCEPT ![id].balance = @ + d] ELSE accts
RowsAffected(accts, id) == IF id \in DOMAIN accts THEN 1 ELSE 0

\* SELECT id FROM accounts WHERE name = $1 (fetch_optional: the first row)
AccountsNamed(accts, name) == {a \in DOMAIN accts : accts[a].name = name}
FindAccountByName(accts, name) == IF AccountsNamed(accts, name) = {} THEN None ELSE Some(CHOOSE a \in AccountsNamed(accts, name) : \A b \in AccountsNamed(accts, name) : a <= b)

\* INSERT INTO accounts (...) VALUES ($1, $2, 'External', 0.00, 'USD', ...)
InsertExternalAccount(accts, id, name) == accts @@ (id :> [name |-> name, account_type |-> "External", balance |-> 0])

\* SELECT name FROM accounts WHERE id = $1
AccountName(accts, id) == IF id \in DOMAIN accts THEN Some(accts[id].name) ELSE None

(* -------------------------- category resolver -------------------------- *)
CategoriesNamed(cats, name) == {c \in DOMAIN cats : cats[c] = name}
create_category(cats, name) == LET id == FreshId(DOMAIN cats) IN [categories |-> cats @@ (id :> name), id |-> id]
find_or_create_category(cats, name) == IF CategoriesNamed(cats, name) # {} THEN [categories |-> cats, id |-> CHOOSE c \in CategoriesNamed(cats, name) : TRUE] ELSE create_category(cats, name)

(* --------------------- balance-adjustment routines --------------------- *)
reverse_transaction_balance_effects_source_only(accts, t) == UpdateBalance(accts, t.source_account_id, t.amount)
reverse_transaction_balance_effects_unsigned(accts, t) == UpdateBalance(UpdateBalance(accts, t.source_account_id, abs(t.amount)), t.destination_account_id, -abs(t.amount))
reverse_transaction_balance_effects(accts, t) == IF t.amount >= 0 THEN UpdateBalance(UpdateBalance(accts, t.source_account_id, abs(t.amount)), t.destination_account_id, -abs(t.amount)) ELSE UpdateBalance(UpdateBalance(accts, t.source_account_id, -abs(t.amount)), t.destination_account_id, abs(t.amount))

apply_transaction_balance_effects_unsigned(accts, src, dst, amount) == UpdateBalance(UpdateBalance(accts, src, -abs(amount)), dst, abs(amount))
apply_transaction_balance_effects(accts, src, dst, amount) == IF amount >= 0 THEN UpdateBalance(UpdateBalance(accts, src, -abs(amount)), dst, abs(amount)) ELSE UpdateBalance(UpdateBalance(accts, src, abs(amount)), dst, -abs(amount))

(* ------------------------------ the store ------------------------------ *)
\* db is [accounts, transactions, categories]: the committed tables
MkDb(a, t, c) == [accounts |-> a, transactions |-> t, categories |-> c]

\* outcome of a handler: the committed tables it leaves and what it returns
Outcome(db, res) == [db |-> db, res |-> res]

\* an error return drops the sqlx::Transaction: its writes (work) are
\* rolled back and only pool writes (committed) remain
Abort_keeps_work(committed, work, e) == Outcome(work, Err(e))
Abort(committed, work, e) == Outcome(committed, Err(e))

\* tx.commit(): the writes of the sqlx::Transaction replace the tables
Commit(committed, work, v) == Outcome(work, Ok(v))

\* foreign keys of a transactions row (fk_source_account,
\* fk_destination_account, fk_budget); fk_category holds by construction
ForeignKeysHold(accts, t) == /\ t.source_account_id \in DOMAIN accts
                             /\ t.destination_account_id \in DOMAIN accts
                             /\ (IsSome(t.budget_id) => Unwrap(t.budget_id) \in BudgetIds)

\* format!("amount = {}", amount) spliced into the UPDATE: a non-finite
\* float prints as NaN / inf, which the store rejects as an unknown column
SqlAcceptsAmount(x) == is_finite(x)

(* --------------------- TransactionService::create ---------------------- *)
\* faults: the statement at which the store reports an I/O error
Faults == {"none", "category", "lookup", "row", "balance"}

\* step 2 of create: destination id, and the accounts table of the open tx
ResolveDestination_always_new(accts, req) == [id |-> FreshId(DOMAIN accts), accounts |-> InsertExternalAccount(accts, FreshId(DOMAIN accts), IF IsSome(req.destination_name) THEN Unwrap(req.destination_name) ELSE req.description)]
ResolveDestination(accts, req) == IF IsSome(req.destination_account_id) THEN [id |-> Unwrap(req.destination_account_id), accounts |-> accts] ELSE LET dest_name == IF IsSome(req.destination_name) THEN Unwrap(req.destination_name) ELSE req.description existing == FindAccountByName(accts, dest_name) new_account_id == FreshId(DOMAIN accts) IN IF IsSome(existing) THEN [id |-> Unwrap(existing), accounts |-> accts] ELSE [id |-> new_account_id, accounts |-> InsertExternalAccount(accts, new_account_id, dest_name)]

\* the destination_name stored on the row
CreateDestinationName(accts, req, dest_id) == IF IsSome(req.destination_name) THEN Unwrap(req.destination_name) ELSE IF IsSome(AccountName(accts, dest_id)) THEN Unwrap(AccountName(accts, dest_id)) ELSE EmptyText

\* lines 322-328
ValidateCreate(req, dest_id) == IF ~is_finite(req.amount) \/ req.amount = 0 THEN "InvalidAmount" ELSE IF req.source_account_id = dest_id THEN "SameAccount" ELSE "ok"

\* the INSERT INTO transactions ... RETURNING * row
NewRow(req, dest_id, dest_name, cat_id, now) == [source_account_id |-> req.source_account_id, destination_account_id |-> dest_id, destination_name |-> Some(dest_name), description |-> req.description, amount |-> req.amount, category |-> req.category, category_id |-> Some(cat_id), budget_id |-> req.budget_id, transaction_date |-> IF IsSome(req.transaction_date) THEN Unwrap(req.transaction_date) ELSE now]

\* lines 365-429: the two balance updates of create, each checked for
\* rows_affected() = 1
CreateBalances_one_sided(accts, req, dest_id) == [accounts |-> UpdateBalance(accts, req.source_account_id, -req.amount), ra1 |-> RowsAffected(accts, req.source_account_id), ra2 |-> RowsAffected(accts, dest_id)]
CreateBalances(accts, req, dest_id) == IF req.amount >= 0 THEN [accounts |-> UpdateBalance(UpdateBalance(accts, req.source_account_id, -abs(req.amount)), dest_id, abs(req.amount)), ra1 |-> RowsAffected(accts, req.source_account_id), ra2 |-> RowsAffected(accts, dest_id)] ELSE [accounts |-> UpdateBalance(UpdateBalance(accts, req.source_account_id, abs(req.amount)), dest_id, -abs(req.amount)), ra1 |-> RowsAffected(accts, req.source_account_id), ra2 |-> RowsAffected(accts, dest_id)]

create_transaction(db, req, fault, txid) ==
    IF fault = "category" THEN Abort(db, db, "Storage") ELSE
    LET cat == find_or_create_category(db.categories, req.category)
        committed == [db EXCEPT !.categories = cat.categories]
    IN  IF fault = "lookup" THEN Abort(committed, committed, "Storage") ELSE
    LET dest == ResolveDestination(committed.accounts, req)
        destination_name == CreateDestinationName(dest.accounts, req, dest.id)
        work1 == [committed EXCEPT !.accounts = dest.accounts]
        valid == ValidateCreate(req, dest.id)
    IN  IF valid # "ok" THEN Abort(committed, work1, valid) ELSE
    LET row == NewRow(req, dest.id, destination_name, cat.id, Now(txid))
        work2 == [work1 EXCEPT !.transactions = @ @@ (txid :> row)]
    IN  IF fault = "row" \/ ~ForeignKeysHold(work1.accounts, row) THEN Abort(committed, work2, "Storage") ELSE
    LET bal == CreateBalances(work2.accounts, req, dest.id)
        work3 == [work2 EXCEPT !.accounts = bal.accounts]
    IN  IF fault = "balance" THEN Abort(committed, work3, "Storage") ELSE
        IF bal.ra1 # 1 \/ bal.ra2 # 1 THEN Abort(committed, work3, "Invariant") ELSE
        Commit(committed, work3, row)

(* --------------------- TransactionService::update ---------------------- *)
\* SELECT * FROM transactions WHERE id = $1 (on the pool)
get_transaction_any_row(db, id) == IF DOMAIN db.transactions = {} THEN None ELSE Some(db.transactions[CHOOSE i \in DOMAIN db.transactions : TRUE])
get_transaction(db, id) == IF id \in DOMAIN db.transactions THEN Some(db.transactions[id]) ELSE None

\* lines 467-476: the category columns the patch sets; a resolver failure
\* falls back to the legacy name only
UpdateCategory_ignored(cats, row, req, fault) == [categories |-> cats, row |-> row]
UpdateCategory(cats, row, req, fault) == IF ~IsSome(req.category) THEN [categories |-> cats, row |-> row] ELSE IF fault = "category" THEN [categories |-> cats, row |-> [row EXCEPT !.category = Unwrap(req.category)]] ELSE LET cat == find_or_create_category(cats, Unwrap(req.category)) IN [categories |-> cat.categories, row |-> [row EXCEPT !.category = Unwrap(req.category), !.category_id = Some(cat.id)]]

\* lines 486-541: destination columns the patch sets, and the accounts
\* table of the open tx
UpdateDestination(accts, row, req) == IF IsSome(req.destination_account_id) THEN LET destination_account_id == Unwrap(req.destination_account_id) dest_account == AccountName(accts, destination_account_id) IN [accounts |-> accts, row |-> IF ~IsSome(req.destination_name) /\ IsSome(dest_account) THEN [row EXCEPT !.destination_account_id = destination_account_id, !.destination_name = dest_account] ELSE [row EXCEPT !.destination_account_id = destination_account_id]] ELSE IF IsSome(req.destination_name) THEN LET dest_name == Unwrap(req.destination_name) existing == FindAccountByName(accts, dest_name) new_account_id == FreshId(DOMAIN accts) IN IF IsSome(existing) THEN [accounts |-> accts, row |-> [row EXCEPT !.destination_account_id = Unwrap(existing), !.destination_name = Some(dest_name)]] ELSE [accounts |-> InsertExternalAccount(accts, new_account_id, dest_name), row |-> [row EXCEPT !.destination_account_id = new_account_id, !.destination_name = Some(dest_name)]] ELSE [accounts |-> accts, row |-> row]

\* whether the patch makes the handler query the accounts table
UpdateLooksUp(req) == (IsSome(req.destination_account_id) /\ ~IsSome(req.destination_name)) \/ (~IsSome(req.destination_account_id) /\ IsSome(req.destination_name))

\* the columns amount, description, budget_id of the patch
UpdateScalars_swaps_accounts(row, req) == [row EXCEPT !.source_account_id = row.destination_account_id, !.amount = IF IsSome(req.amount) THEN Unwrap(req.amount) ELSE @, !.description = IF IsSome(req.description) THEN Unwrap(req.description) ELSE @]
UpdateScalars(row, req) == [row EXCEPT !.amount = IF IsSome(req.amount) THEN Unwrap(req.amount) ELSE @, !.description = IF IsSome(req.description) THEN Unwrap(req.description) ELSE @, !.budget_id = IF IsSome(req.budget_id) THEN req.budget_id ELSE @, !.transaction_date = IF IsSome(req.transaction_date) THEN Unwrap(req.transaction_date) ELSE @]

\* the body of update_transaction once the original row has been read:
\* lines 443-563.  current is the row the UPDATE statement finds (absent
\* when the row was deleted after the read).
update_transaction_tx(db, id, original, req, fault) ==
    LET work1 == [db EXCEPT !.accounts = reverse_transaction_balance_effects(@, original)]
        new_amount == IF IsSome(req.amount) THEN Unwrap(req.amount) ELSE original.amount
        new_source_account_id == original.source_account_id
        current == IF id \in DOMAIN db.transactions THEN db.transactions[id] ELSE original
        cat == UpdateCategory(db.categories, UpdateScalars(current, req), req, fault)
        committed == [db EXCEPT !.categories = cat.categories]
    IN  IF fault = "lookup" /\ UpdateLooksUp(req) THEN Abort(committed, work1, "Storage") ELSE
    LET dest == UpdateDestination(work1.accounts, cat.row, req)
        new_destination_account_id == IF IsSome(req.destination_account_id) \/ IsSome(req.destination_name) THEN dest.row.destination_account_id ELSE original.destination_account_id
        found == id \in DOMAIN db.transactions
        work2 == [accounts |-> dest.accounts, transactions |-> IF found THEN [db.transactions EXCEPT ![id] = dest.row] ELSE db.transactions, categories |-> cat.categories]
        updated_transaction == IF found THEN Some(dest.row) ELSE None
    IN  IF fault = "row" \/ ~SqlAcceptsAmount(new_amount) \/ (found /\ ~ForeignKeysHold(dest.accounts, dest.row)) THEN Abort(committed, work2, "Storage") ELSE
    LET work3 == [work2 EXCEPT !.accounts = apply_transaction_balance_effects(@, new_source_account_id, new_destination_account_id, new_amount)]
    IN  IF fault = "balance" THEN Abort(committed, work3, "Storage") ELSE
        Commit(committed, work3, updated_transaction)

update_transaction(db, id, req, fault) == LET original_transaction == get_transaction(db, id) IN IF IsSome(original_transaction) THEN update_transaction_tx(db, id, Unwrap(original_transaction), req, fault) ELSE Outcome(db, Ok(None))

(* --------------------- TransactionService::delete ---------------------- *)
\* lines 575-591, once the row has been read
delete_transaction_tx_keeps_balances(db, id, transaction, fault) == Commit(db, [db EXCEPT !.transactions = [i \in (DOMAIN @) \ {id} |-> @[i]]], id \in DOMAIN db.transactions)
delete_transaction_tx(db, id, transaction, fault) ==
    LET found == id \in DOMAIN db.transactions
        work1 == [db EXCEPT !.transactions = [i \in (DOMAIN @) \ {id} |-> @[i]]]
    IN  IF fault = "row" THEN Abort(db, work1, "Storage") ELSE
    LET work2 == [work1 EXCEPT !.accounts = reverse_transaction_balance_effects(@, transaction)]
    IN  IF fault = "balance" THEN Abort(db, work2, "Storage") ELSE
        Commit(db, work2, found)

delete_transaction(db, id, fault) == LET transaction == get_transaction(db, id) IN IF IsSome(transaction) THEN delete_transaction_tx(db, id, Unwrap(transaction), fault) ELSE Outcome(db, Ok(FALSE))

(* ------------------------------ rule engine ---------------------------- *)
\* char::to_lowercase over the alphabet of the model
LowerChar(c) == CASE c = "A" -> "a" [] c = "B" -> "b" [] c = "C" -> "c" [] c = "D" -> "d" [] c = "F" -> "f" [] c = "G" -> "g" [] c = "I" -> "i" [] c = "O" -> "o" [] c = "S" -> "s" [] OTHER -> c
to_lowercase(s) == [i \in DOMAIN s |-> LowerChar(s[i])]
contains(s, sub) == \E i \in 0 .. (Len(s) - Len(sub)) : SubSeq(s, i + 1, i + Len(sub)) = sub
starts_with(s, sub) == Len(sub) <= Len(s) /\ SubSeq(s, 1, Len(sub)) = sub

\* Uuid::to_string and Uuid::parse_str over the one-digit ids of the model
Digits == <<"1", "2", "3", "4", "5", "6", "7", "8", "9">>
UuidToString(id) == IF id \in DOMAIN Digits THEN <<Digits[id]>> ELSE <<"?">>
ParseUuid(s) == IF Len(s) = 1 /\ (\E d \in DOMAIN Digits : Digits[d] = s[1]) THEN Some(CHOOSE d \in DOMAIN Digits : Digits[d] = s[1]) ELSE None

\* str::parse::<f64> over the numerals of the model: an optional minus sign
\* and one digit
DigitValue(c) == IF c = "0" THEN Some(0) ELSE ParseUuid(<<c>>)
ParseF64(s) == IF Len(s) = 1 /\ IsSome(DigitValue(s[1])) THEN DigitValue(s[1]) ELSE IF Len(s) = 2 /\ s[1] = "-" /\ IsSome(DigitValue(s[2])) THEN Some(-Unwrap(DigitValue(s[2]))) ELSE None

\* lines 650-696: one condition against a transaction
ConditionHolds(condition, transaction) ==
    CASE condition.condition_type = "description_contains" -> contains(to_lowercase(transaction.description), to_lowercase(condition.value))
      [] condition.condition_type = "description_starts_with" -> starts_with(to_lowercase(transaction.description), to_lowercase(condition.value))
      [] condition.condition_type = "description_equals" -> to_lowercase(transaction.description) = to_lowercase(condition.value)
      [] condition.condition_type = "source_account_equals" -> UuidToString(transaction.source_account_id) = condition.value
      [] condition.condition_type = "destination_account_equals" -> UuidToString(transaction.destination_account_id) = condition.value
      [] condition.condition_type = "destination_name_contains" -> IsSome(transaction.destination_name) /\ contains(to_lowercase(Unwrap(transaction.destination_name)), to_lowercase(condition.value))
      [] condition.condition_type = "destination_name_equals" -> IsSome(transaction.destination_name) /\ to_lowercase(Unwrap(transaction.destination_name)) = to_lowercase(condition.value)
      [] condition.condition_type = "amount_greater_than" -> IsSome(ParseF64(condition.value)) /\ transaction.amount > Unwrap(ParseF64(condition.value))
      [] condition.condition_type = "amount_less_than" -> IsSome(ParseF64(condition.value)) /\ transaction.amount < Unwrap(ParseF64(condition.value))
      [] condition.condition_type = "amount_equals" -> IsSome(ParseF64(condition.value)) /\ abs(transaction.amount - Unwrap(ParseF64(condition.value))) < 1

all_conditions_match_unless_empty(conditions, transaction) == conditions # <<>> /\ \A i \in DOMAIN conditions : ConditionHolds(conditions[i], transaction)
all_conditions_match(conditions, transaction) == \A i \in DOMAIN conditions : ConditionHolds(conditions[i], transaction)

\* UpdateTransactionRequest with every field None (lines 617-625)
EmptyUpdateRequest == [destination_account_id |-> None, destination_name |-> None, description |-> None, amount |-> None, category |-> None, budget_id |-> None, transaction_date |-> None]

\* lines 704-725: one action written into the accumulating request
ApplyAction(update_request, action) ==
    CASE action.action_type = "set_category" -> [update_request EXCEPT !.category = Some(action.value)]
      [] action.action_type = "set_budget" -> IF IsSome(ParseUuid(action.value)) THEN [update_request EXCEPT !.budget_id = ParseUuid(action.value)] ELSE update_request
      [] action.action_type = "set_description" -> [update_request EXCEPT !.description = Some(action.value)]
      [] action.action_type = "set_destination_name" -> [update_request EXCEPT !.destination_name = Some(action.value)]

RECURSIVE ApplyActions(_, _)
ApplyActions(update_request, actions) == IF actions = <<>> THEN update_request ELSE ApplyActions(ApplyAction(update_request, Head(actions)), Tail(actions))

\* lines 630-730: the loop over the rules the query returned; acc is
\* [update_request, any_rule_applied]
RECURSIVE FoldRules_first_match(_, _, _)
FoldRules_first_match(acc, ordered, transaction) == IF ordered = <<>> THEN acc ELSE IF Head(ordered).conditions_parse /\ Head(ordered).actions_parse /\ all_conditions_match(Head(ordered).conditions, transaction) THEN [update_request |-> ApplyActions(acc.update_request, Head(ordered).actions), any_rule_applied |-> TRUE] ELSE FoldRules_first_match(acc, Tail(ordered), transaction)
RECURSIVE FoldRules_stops_at_malformed(_, _, _)
FoldRules_stops_at_malformed(acc, ordered, transaction) == IF ordered = <<>> THEN acc ELSE IF ~Head(ordered).conditions_parse \/ ~Head(ordered).actions_parse THEN acc ELSE IF all_conditions_match(Head(ordered).conditions, transaction) THEN FoldRules_stops_at_malformed([update_request |-> ApplyActions(acc.update_request, Head(ordered).actions), any_rule_applied |-> TRUE], Tail(ordered), transaction) ELSE FoldRules_stops_at_malformed(acc, Tail(ordered), transaction)
RECURSIVE FoldRules(_, _, _)
FoldRules(acc, ordered, transaction) ==
    IF ordered = <<>> THEN acc ELSE
    LET rule == Head(ordered)
    IN  IF ~rule.conditions_parse \/ ~rule.actions_parse THEN FoldRules(acc, Tail(ordered), transaction)
        ELSE IF all_conditions_match(rule.conditions, transaction) THEN FoldRules([update_request |-> ApplyActions(acc.update_request, rule.actions), any_rule_applied |-> TRUE], Tail(ordered), transaction)
        ELSE FoldRules(acc, Tail(ordered), transaction)

\* Ok(Some(request)) / Ok(None); ordered is what SELECT * FROM rules WHERE
\* is_active = true ORDER BY priority ASC returned
apply_rules_to_transaction(ordered, transaction) == IF ordered = <<>> THEN None ELSE LET acc == FoldRules([update_request |-> EmptyUpdateRequest, any_rule_applied |-> FALSE], ordered, transaction) IN IF acc.any_rule_applied THEN Some(acc.update_request) ELSE None

\* the orders in which the store may return the active rules: ascending
\* priority, rows of equal priority in any order
ActiveRules(rs) == {r \in rs : r.is_active}
Orderings(S) == {f \in [1 .. Cardinality(S) -> S] : \A i, j \in 1 .. Cardinality(S) : i # j => f[i] # f[j]}
RulesByPriority(rs) == {f \in Orderings(ActiveRules(rs)) : \A i, j \in DOMAIN f : i < j => f[i].priority <= f[j].priority}

(* ------------------------------- inputs -------------------------------- *)
\* how a request may name its destination: (destination_account_id,
\* destination_name)
NoDestination == <<None, None>>
Destinations == {<<None, Some(CoffeeShop)>>, <<None, Some(NameA)>>, <<Some(AccountB), None>>, <<Some(NoAccount), None>>}

CreateRequest(s, d, a) == [source_account_id |-> s, destination_account_id |-> d[1], destination_name |-> d[2], description |-> Coffee, amount |-> a, category |-> Food, budget_id |-> None, transaction_date |-> None]
CreateRequests == {CreateRequest(AccountA, d, a) : d \in Destinations, a \in Amounts} \cup {CreateRequest(NoAccount, NoDestination, MaxAmt)}
\* the requests on which a store failure is injected
FaultedCreateRequests == {CreateRequest(AccountA, d, MaxAmt) : d \in {<<None, Some(CoffeeShop)>>, <<Some(AccountB), None>>}}

\* patches: a new destination, a new amount, both, or a non-balance field
UpdateRequests == {[EmptyUpdateRequest EXCEPT !.destination_account_id = d[1], !.destination_name = d[2]] : d \in Destinations} \cup {[EmptyUpdateRequest EXCEPT !.amount = Some(a)] : a \in Amounts} \cup {[EmptyUpdateRequest EXCEPT !.destination_name = Some(CoffeeShop), !.amount = Some(-1)], [EmptyUpdateRequest EXCEPT !.category = Some(Dining)], [EmptyUpdateRequest EXCEPT !.budget_id = Some(NoBudget)], EmptyUpdateRequest}
FaultedUpdateRequests == {[EmptyUpdateRequest EXCEPT !.destination_name = Some(CoffeeShop), !.amount = Some(MaxAmt), !.category = Some(Dining)]}

StoreFaults == Faults \ {"none"}

\* rules table contents (rule CRUD is not part of the ledger; the table is
\* read-only here)
Cond(t, v) == [condition_type |-> t, value |-> v]
Act(t, v) == [action_type |-> t, value |-> v]
Rule(n, p, cs, as) == [name |-> n, is_active |-> TRUE, priority |-> p, conditions_parse |-> TRUE, actions_parse |-> TRUE, conditions |-> cs, actions |-> as]
RuleDining == Rule(<<"d">>, 1, <<Cond("description_contains", <<"c", "o">>)>>, <<Act("set_category", Dining)>>)
RuleRename == Rule(<<"r">>, 2, <<Cond("amount_greater_than", <<"1">>)>>, <<Act("set_destination_name", NameB)>>)
RuleBudget == Rule(<<"b">>, 2, <<Cond("amount_less_than", <<"0">>)>>, <<Act("set_budget", <<"1">>), Act("set_description", CoffeeShop)>>)
NoRules == {}
RuleTables == {{RuleDining}, {RuleDining, RuleRename, RuleBudget}}

\* requests of the runs that exercise the rules
RuleCreateRequests == {CreateRequest(AccountA, d, a) : d \in {<<None, Some(CoffeeShop)>>, <<Some(AccountB), None>>}, a \in {-1, MaxAmt}}
RuleUpdateRequests == {[EmptyUpdateRequest EXCEPT !.amount = Some(a)] : a \in {-1, MaxAmt}} \cup {[EmptyUpdateRequest EXCEPT !.description = Some(NameB)]}

(* ------------------------------- state --------------------------------- *)
VARIABLES accounts, transactions, categories, rules, nextTxId, pending, last, race
vars == <<accounts, transactions, categories, rules, nextTxId, pending, last, race>>

DB == MkDb(accounts, transactions, categories)
Install(db) == /\ accounts' = db.accounts
               /\ transactions' = db.transactions
               /\ categories' = db.categories

\* last: the call that produced the current state (history, for stating
\* properties): its operation, transaction id, the request fields that were
\* present, the injected fault and its result
NoReq == <<>>
Fields(req) == IF req = NoReq THEN {} ELSE {f \in {"destination_account_id", "destination_name", "description", "amount", "category", "budget_id", "transaction_date"} : IsSome(req[f])}
Last(op, id, req, fault, res) == [op |-> op, id |-> id, fields |-> Fields(req), fault |-> fault, ok |-> res.ok, err |-> res.err, val |-> res.val]

\* race: two overlapping calls on one transaction id (idle when not active)
NoRace == [active |-> FALSE, id |-> 0, calls |-> <<>>, pc |-> <<>>, orig |-> <<>>, start |-> MkDb(InitAccounts, <<>>, <<>>)]

InitWith(rs) == /\ accounts = InitAccounts
                /\ transactions = <<>>
                /\ categories = <<>>
                /\ rules = rs
                /\ nextTxId = 1
                /\ pending = None
                /\ last = Last("init", 0, NoReq, "none", Ok(None))
                /\ race = NoRace

Init == InitWith(NoRules)

(* ----------------------- TransactionRuleService ------------------------ *)
\* create_transaction, line 31: the first ledger write (state LedgerWritten)
CreateTransaction(req, fault) ==
    /\ pending = None
    /\ ~race.active
    /\ nextTxId <= MaxTxns
    /\ \E out \in {create_transaction(DB, req, fault, nextTxId)} :
           /\ Install(out.db)
           /\ nextTxId' = IF out.res.ok THEN nextTxId + 1 ELSE nextTxId
           /\ pending' = IF out.res.ok THEN Some([id |-> nextTxId, transaction |-> out.res.val]) ELSE None
           /\ last' = Last("create", nextTxId, NoReq, fault, out.res)
    /\ UNCHANGED <<rules, race>>

\* update_transaction, line 49: the first ledger write
UpdateTransaction(id, req, fault) ==
    /\ pending = None
    /\ ~race.active
    /\ \E out \in {update_transaction(DB, id, req, fault)} :
           /\ Install(out.db)
           /\ pending' = IF out.res.ok /\ IsSome(out.res.val) THEN Some([id |-> id, transaction |-> Unwrap(out.res.val)]) ELSE None
           /\ last' = Last("update", id, req, fault, out.res)
    /\ UNCHANGED <<rules, nextTxId, race>>

\* lines 34-43 and 54-63: evaluate the rules on the transaction the first
\* write returned and, if a request comes back, write it (state RulesApplied)
ApplyRules(ordered, evalFails, fault) ==
    /\ pending # None
    /\ \E p \in {Unwrap(pending)}, update_request \in {IF evalFails THEN None ELSE apply_rules_to_transaction(ordered, Unwrap(pending).transaction)} :
           IF IsSome(update_request)
           THEN \E out \in {update_transaction(DB, p.id, Unwrap(update_request), fault)} :
                    /\ Install(out.db)
                    /\ last' = Last("rules", p.id, Unwrap(update_request), fault, IF out.res.ok /\ IsSome(out.res.val) THEN out.res ELSE Ok(Some(p.transaction)))
           ELSE /\ UNCHANGED <<accounts, transactions, categories>>
                /\ last' = Last("rules", p.id, NoReq, IF evalFails THEN "rules" ELSE "none", Ok(Some(p.transaction)))
    /\ pending' = None
    /\ UNCHANGED <<rules, nextTxId, race>>

\* delete_transaction: pass-through to TransactionService
DeleteTransaction(id, fault) ==
    /\ pending = None
    /\ ~race.active
    /\ \E out \in {delete_transaction(DB, id, fault)} :
           /\ Install(out.db)
           /\ last' = Last("delete", id, NoReq, fault, out.res)
    /\ UNCHANGED <<rules, nextTxId, pending, race>>

TxIds == 1 .. MaxTxns

\* sequential calls on the ledger, no rules stored
Next == \/ \E req \in CreateRequests : CreateTransaction(req, "none")
        \/ \E req \in FaultedCreateRequests, fault \in StoreFaults : CreateTransaction(req, fault)
        \/ \E id \in TxIds, req \in UpdateRequests : UpdateTransaction(id, req, "none")
        \/ \E id \in TxIds, req \in FaultedUpdateRequests, fault \in StoreFaults : UpdateTransaction(id, req, fault)
        \/ \E ordered \in RulesByPriority(rules), evalFails \in BOOLEAN, fault \in Faults : ApplyRules(ordered, evalFails, fault)
        \/ \E id \in TxIds, fault \in {"none", "row", "balance"} : DeleteTransaction(id, fault)

Spec == Init /\ [][Next]_vars

\* sequential calls with rules stored
InitRules == \E rs \in RuleTables : InitWith(rs)
NextRules == \/ \E req \in RuleCreateRequests : CreateTransaction(req, "none")
             \/ \E id \in TxIds, req \in RuleUpdateRequests : UpdateTransaction(id, req, "none")
             \/ \E ordered \in RulesByPriority(rules), evalFails \in BOOLEAN, fault \in Faults : ApplyRules(ordered, evalFails, fault)
             \/ \E id \in TxIds : DeleteTransaction(id, "none")

SpecRules == InitRules /\ [][NextRules]_vars

(* ---------------------------- AccountService --------------------------- *)
MaxAccounts == 3
InitialBalanceText == <<"I">>
Savings == <<"S">>

\* create_account, lines 33-113: the account row with the requested balance
\* and, for a balance other than zero, an External account "Initial Balance"
\* with balance 0 and a transaction between the two; one storage transaction
create_account(db, req, txid) ==
    LET account_id == FreshId(DOMAIN db.accounts)
        account == [name |-> req.name, account_type |-> req.account_type, balance |-> req.balance]
        accts1 == db.accounts @@ (account_id :> account)
        external_account_id == FreshId(DOMAIN accts1)
        accts2 == accts1 @@ (external_account_id :> [name |-> InitialBalanceText, account_type |-> "External", balance |-> 0])
        source_id == IF req.balance > 0 THEN external_account_id ELSE account_id
        destination_id == IF req.balance > 0 THEN account_id ELSE external_account_id
        amount == IF req.balance > 0 THEN req.balance ELSE abs(req.balance)
        row == [source_account_id |-> source_id, destination_account_id |-> destination_id, destination_name |-> Some(InitialBalanceText), description |-> InitialBalanceText, amount |-> amount, category |-> InitialBalanceText, category_id |-> None, budget_id |-> None, transaction_date |-> Now(txid)]
    IN  IF req.balance # 0
        THEN Commit(db, [db EXCEPT !.accounts = accts2, !.transactions = @ @@ (txid :> row)], account)
        ELSE Commit(db, [db EXCEPT !.accounts = accts1], account)

\* update_account, lines 116-161: the fields present in the request are
\* written to the row, on the pool
update_account(db, id, req) ==
    IF id \notin DOMAIN db.accounts THEN Outcome(db, Ok(None)) ELSE
    IF IsSome(req.balance) /\ ~SqlAcceptsAmount(Unwrap(req.balance)) THEN Outcome(db, Err("Storage")) ELSE
    LET row == [db.accounts[id] EXCEPT !.name = IF IsSome(req.name) THEN Unwrap(req.name) ELSE @, !.balance = IF IsSome(req.balance) THEN Unwrap(req.balance) ELSE @]
    IN  Outcome([db EXCEPT !.accounts[id] = row], Ok(Some(row)))

CreateAccountRequests == {[name |-> Savings, account_type |-> "On Budget", balance |-> b] : b \in FiniteAmounts}
UpdateAccountRequests == {[name |-> None, balance |-> Some(b)] : b \in {MaxAmt, NaN}} \cup {[name |-> Some(NameB), balance |-> None]}

CreateAccount(req) ==
    /\ pending = None
    /\ ~race.active
    /\ Cardinality(DOMAIN accounts) < MaxAccounts
    /\ req.balance # 0 => nextTxId <= MaxTxns
    /\ \E out \in {create_account(DB, req, nextTxId)} :
           /\ Install(out.db)
           /\ nextTxId' = IF req.balance # 0 THEN nextTxId + 1 ELSE nextTxId
           /\ last' = Last("create_account", FreshId(DOMAIN accounts), NoReq, "none", out.res)
    /\ UNCHANGED <<rules, pending, race>>

UpdateAccount(id, req) ==
    /\ pending = None
    /\ ~race.active
    /\ \E out \in {update_account(DB, id, req)} :
           /\ Install(out.db)
           /\ last' = Last("update_account", id, NoReq, "none", out.res)
    /\ UNCHANGED <<rules, nextTxId, pending, race>>

InitAccountOps == InitWith(NoRules)
NextAccountOps == \/ \E req \in {CreateRequest(AccountA, <<Some(AccountB), None>>, MaxAmt)} : CreateTransaction(req, "none")
                  \/ \E ordered \in RulesByPriority(rules) : ApplyRules(ordered, FALSE, "none")
                  \/ \E id \in TxIds : DeleteTransaction(id, "none")
                  \/ \E req \in CreateAccountRequests : CreateAccount(req)
                  \/ \E id \in {AccountA, AccountB, NoAccount}, req \in UpdateAccountRequests : UpdateAccount(id, req)

SpecAccounts == InitAccountOps /\ [][NextAccountOps]_vars
(* ------------------- every way of naming a destination ----------------- *)
\* sequential calls whose requests give the destination by id, by name, by
\* both, or not at all (the description then serves as the name)
NameCreateRequests == {CreateRequest(AccountA, d, a) : d \in {NoDestination, <<None, Some(CoffeeShop)>>, <<None, Some(NameB)>>, <<Some(AccountB), None>>, <<Some(AccountB), Some(CoffeeShop)>>}, a \in {-1, MaxAmt}}
NameUpdateRequests == {[EmptyUpdateRequest EXCEPT !.destination_account_id = d[1], !.destination_name = d[2]] : d \in {<<None, Some(CoffeeShop)>>, <<None, Some(NameB)>>, <<Some(AccountB), None>>, <<Some(AccountB), Some(CoffeeShop)>>}} \cup {[EmptyUpdateRequest EXCEPT !.amount = Some(-1)]}

InitNames == InitWith(NoRules)
NextNames == \/ \E req \in NameCreateRequests : CreateTransaction(req, "none")
             \/ \E ordered \in RulesByPriority(rules) : ApplyRules(ordered, FALSE, "none")
             \/ \E id \in TxIds, req \in NameUpdateRequests : UpdateTransaction(id, req, "none")
             \/ \E id \in TxIds : DeleteTransaction(id, "none")

SpecNames == InitNames /\ [][NextNames]_vars
(* --------------------------- rule tables ------------------------------- *)
\* rules tables that exercise the fold: equal priorities, several matching
\* rules, an inactive rule, a rule with a false condition, a rule without
\* conditions, rules whose actions set nothing, a rule whose JSON does not
\* deserialize
Groceries == <<"G">>
RuleTieA == Rule(<<"a">>, 1, <<Cond("description_contains", <<"c", "o">>)>>, <<Act("set_category", Dining)>>)
RuleTieB == Rule(<<"b">>, 1, <<Cond("description_starts_with", <<"C">>)>>, <<Act("set_category", Groceries)>>)
RuleOverride == Rule(<<"o">>, 3, <<Cond("amount_greater_than", <<"1">>), Cond("description_contains", <<"O">>)>>, <<Act("set_category", Groceries), Act("set_description", CoffeeShop), Act("set_description", NameB)>>)
RuleInactive == [Rule(<<"i">>, 0, <<>>, <<Act("set_category", Food), Act("set_destination_name", NameB)>>) EXCEPT !.is_active = FALSE]
RuleFalse == Rule(<<"f">>, 2, <<Cond("description_contains", <<"c", "o">>), Cond("amount_equals", <<"5">>)>>, <<Act("set_budget", <<"1">>)>>)
RuleAll == Rule(<<"e">>, 4, <<>>, <<Act("set_budget", <<"1">>)>>)
RuleNoActions == Rule(<<"n">>, 1, <<Cond("description_equals", <<"C", "O">>)>>, <<>>)
RuleBadBudget == Rule(<<"x">>, 2, <<Cond("amount_less_than", <<"0">>)>>, <<Act("set_budget", <<"x">>)>>)
RuleBadJson == [Rule(<<"j">>, 0, <<>>, <<Act("set_description", NameA)>>) EXCEPT !.actions_parse = FALSE]
RuleBadConditions == [Rule(<<"k">>, 2, <<>>, <<Act("set_category", Food), Act("set_destination_name", NameB)>>) EXCEPT !.conditions_parse = FALSE]
FoldRuleTables == {{RuleTieA, RuleTieB}, {RuleDining, RuleOverride, RuleInactive, RuleFalse, RuleAll}, {RuleNoActions, RuleBadBudget, RuleBadJson}, {RuleBadJson, RuleDining, RuleBadConditions}}

\* SELECT * FROM transactions ORDER BY transaction_date DESC (line 742): the
\* orders the store may return the rows in, given as sequences of ids:
\* latest date first, rows of equal date in any order
Dated(txns, d) == {i \in DOMAIN txns : txns[i].transaction_date = d}
RECURSIVE ByDateDesc(_, _, _)
ByDateDesc(txns, from, to) == IF from = to THEN Orderings(Dated(txns, from)) ELSE {later \o earlier : later \in ByDateDesc(txns, (from + to) \div 2 + 1, to), earlier \in ByDateDesc(txns, from, (from + to) \div 2)}
TransactionsByDate(txns) == IF DOMAIN txns = {} THEN {<<>>} ELSE ByDateDesc(txns, CHOOSE d \in {txns[i].transaction_date : i \in DOMAIN txns} : \A i \in DOMAIN txns : d <= txns[i].transaction_date, Max({txns[i].transaction_date : i \in DOMAIN txns}))

\* Iterator::take
SampleLimit == 100
take_all(s, n) == s
take(s, n) == IF Len(s) <= n THEN s ELSE SubSeq(s, 1, n)

\* test_conditions, lines 740-807: the rows of the query result for which
\* every condition of the payload holds, in the order of the result; their
\* number and the first hundred of them (rows are given by their ids)
test_conditions(txns, ordered, conditions) ==
    LET matched == SelectSeq(ordered, LAMBDA i : all_conditions_match(conditions, txns[i]))
    IN  [total |-> Len(matched), sample |-> take(matched, SampleLimit)]

\* apply_rule_to_all_transactions, lines 33-238: the rule's actions written
\* to every stored transaction its conditions match (a plain UPDATE of the
\* row on the pool), and the number of rows written
RulePatchSetsField_category_only(patch) == IsSome(patch.category)
RulePatchSetsField(patch) == IsSome(patch.category) \/ IsSome(patch.budget_id) \/ IsSome(patch.description) \/ IsSome(patch.destination_name)
RulePatchedRow_resets_amount(t, patch) == [t EXCEPT !.amount = 0, !.category = IF IsSome(patch.category) THEN Unwrap(patch.category) ELSE @]
RulePatchedRow(t, patch) == [t EXCEPT !.category = IF IsSome(patch.category) THEN Unwrap(patch.category) ELSE @, !.budget_id = IF IsSome(patch.budget_id) THEN patch.budget_id ELSE @, !.description = IF IsSome(patch.description) THEN Unwrap(patch.description) ELSE @, !.destination_name = IF IsSome(patch.destination_name) THEN patch.destination_name ELSE @]
apply_rule_to_all_transactions(db, rule) ==
    IF ~rule.conditions_parse \/ ~rule.actions_parse THEN Outcome(db, Err("RowNotFound")) ELSE
    IF ~rule.is_active THEN Outcome(db, Ok(0)) ELSE
    LET update_request == ApplyActions(EmptyUpdateRequest, rule.actions)
        written == {i \in DOMAIN db.transactions : /\ all_conditions_match(rule.conditions, db.transactions[i])
                                                   /\ RulePatchSetsField(update_request)
                                                   /\ ForeignKeysHold(db.accounts, RulePatchedRow(db.transactions[i], update_request))}
    IN  Outcome([db EXCEPT !.transactions = [i \in DOMAIN @ |-> IF i \in written THEN RulePatchedRow(@[i], update_request) ELSE @[i]]], Ok(Cardinality(written)))

\* apply_all_rules_to_all_transactions, lines 241-432: for every stored
\* transaction the fold over the active rules the query returned and, when
\* a rule matched and the patch sets a field, a plain UPDATE of the row on
\* the pool; the number of rows written
apply_all_rules_to_all_transactions(db, ordered) ==
    IF ordered = <<>> THEN Outcome(db, Ok(0)) ELSE
    LET acc(i) == FoldRules([update_request |-> EmptyUpdateRequest, any_rule_applied |-> FALSE], ordered, db.transactions[i])
        affected_transactions == {i \in DOMAIN db.transactions : /\ acc(i).any_rule_applied
                                                                 /\ RulePatchSetsField(acc(i).update_request)
                                                                 /\ ForeignKeysHold(db.accounts, RulePatchedRow(db.transactions[i], acc(i).update_request))}
    IN  Outcome([db EXCEPT !.transactions = [i \in DOMAIN @ |-> IF i \in affected_transactions THEN RulePatchedRow(@[i], acc(i).update_request) ELSE @[i]]], Ok(Cardinality(affected_transactions)))

ApplyAllRules(ordered) ==
    /\ pending = None
    /\ ~race.active
    /\ \E out \in {apply_all_rules_to_all_transactions(DB, ordered)} :
           /\ Install(out.db)
           /\ last' = Last("apply_all_rules", 0, NoReq, "none", out.res)
    /\ UNCHANGED <<rules, nextTxId, pending, race>>

\* payloads of POST /rules/test
TestedConditions == {<<>>, <<Cond("amount_greater_than", <<"1">>)>>, <<Cond("description_contains", <<"c", "o">>), Cond("amount_less_than", <<"0">>)>>}

TestConditions(conditions) ==
    /\ pending = None
    /\ ~race.active
    /\ \E ordered \in TransactionsByDate(transactions) : last' = Last("test_conditions", 0, NoReq, "none", Ok(test_conditions(transactions, ordered, conditions)))
    /\ UNCHANGED <<accounts, transactions, categories, rules, nextTxId, pending, race>>

ApplyRuleToAll(rule) ==
    /\ pending = None
    /\ ~race.active
    /\ \E out \in {apply_rule_to_all_transactions(DB, rule)} :
           /\ Install(out.db)
           /\ last' = Last("apply_rule_to_all", 0, NoReq, "none", out.res)
    /\ UNCHANGED <<rules, nextTxId, pending, race>>
InitFold == \E rs \in FoldRuleTables : InitWith(rs)
NextFold == \/ \E req \in RuleCreateRequests : CreateTransaction(req, "none")
            \/ \E id \in TxIds, req \in RuleUpdateRequests : UpdateTransaction(id, req, "none")
            \/ \E ordered \in RulesByPriority(rules) : ApplyRules(ordered, FALSE, "none")
            \/ \E id \in TxIds : DeleteTransaction(id, "none")
            \/ \E conditions \in TestedConditions : TestConditions(conditions)
            \/ \E rule \in rules : ApplyRuleToAll(rule)
            \/ \E ordered \in RulesByPriority(rules) : ApplyAllRules(ordered)

SpecFold == InitFold /\ [][NextFold]_vars

\* condition tests over stores of up to MaxStored transactions from
\* AccountA to AccountB: every third one described "B", dates either all
\* different or falling on three days
MaxStored == 102
TiedStored == 6
StoredDate(i, tied) == IF tied THEN i % 3 ELSE (i * 37) % (MaxStored + 1)
StoredRow(i, tied) == NewRow([CreateRequest(AccountA, <<Some(AccountB), None>>, MaxAmt) EXCEPT !.description = IF i % 3 = 0 THEN NameB ELSE Coffee, !.transaction_date = Some(StoredDate(i, tied))], AccountB, NameB, find_or_create_category(<<>>, Food).id, Now(i))
StoredSizes == (0 .. TiedStored) \cup ((MaxStored - 12) .. MaxStored)
SampleConditions == TestedConditions \cup {<<Cond("description_contains", <<"c", "o">>)>>, <<Cond("description_equals", <<"b">>)>>}
InitSample == \E n \in StoredSizes, tied \in BOOLEAN :
                  /\ tied => n <= TiedStored
                  /\ accounts = [InitAccounts EXCEPT ![AccountA].balance = @ - n * MaxAmt, ![AccountB].balance = @ + n * MaxAmt]
                  /\ transactions = [i \in 1 .. n |-> StoredRow(i, tied)]
                  /\ categories = find_or_create_category(<<>>, Food).categories
                  /\ rules = NoRules
                  /\ nextTxId = n + 1
                  /\ pending = None
                  /\ last = Last("init", 0, NoReq, "none", Ok(None))
                  /\ race = NoRace
NextSample == \E conditions \in SampleConditions : TestConditions(conditions)

SpecSample == InitSample /\ [][NextSample]_vars
(* ------------------------- overlapping requests ------------------------ *)
\* Two handlers run on the same transaction id.  Each first reads the row on
\* the pool (update line 440, delete line 572) and later runs its storage
\* transaction; the row locks of the store make the body of a storage
\* transaction one step, the read is a step of its own.
UpdateCall(req) == [op |-> "update", req |-> req]
DeleteCall == [op |-> "delete", req |-> EmptyUpdateRequest]
RaceCalls == {UpdateCall([EmptyUpdateRequest EXCEPT !.amount = Some(a)]) : a \in {-1, MaxAmt}} \cup {UpdateCall([EmptyUpdateRequest EXCEPT !.destination_name = Some(CoffeeShop)]), DeleteCall}
ConcCreateRequests == {CreateRequest(AccountA, d, a) : d \in {<<None, Some(CoffeeShop)>>, <<Some(AccountB), None>>}, a \in {-1, MaxAmt}}

\* two requests for transaction id arrive
StartRace(id, c1, c2) ==
    /\ pending = None
    /\ ~race.active
    /\ id \in DOMAIN transactions
    /\ race' = [active |-> TRUE, id |-> id, calls |-> <<c1, c2>>, pc |-> <<"read", "read">>, orig |-> <<None, None>>, start |-> DB]
    /\ UNCHANGED <<accounts, transactions, categories, rules, nextTxId, pending, last>>

\* update line 440 / delete line 572: self.get_transaction(id) on the pool;
\* an absent row ends the call (Ok(None) / Ok(false))
ReadTx(p) ==
    /\ race.active
    /\ race.pc[p] = "read"
    /\ \E row \in {get_transaction(DB, race.id)} :
           race' = [race EXCEPT !.orig[p] = row, !.pc[p] = IF IsSome(row) THEN "tx" ELSE "done"]
    /\ UNCHANGED <<accounts, transactions, categories, rules, nextTxId, pending, last>>

\* update lines 443-563 / delete lines 575-591: begin .. commit, computed
\* from the row the call read earlier
RunTx(p) ==
    /\ race.active
    /\ race.pc[p] = "tx"
    /\ \E call \in {race.calls[p]} :
       \E out \in {IF call.op = "update" THEN update_transaction_tx(DB, race.id, Unwrap(race.orig[p]), call.req, "none") ELSE delete_transaction_tx(DB, race.id, Unwrap(race.orig[p]), "none")} :
           /\ Install(out.db)
           /\ last' = Last(call.op, race.id, call.req, "none", out.res)
    /\ race' = [race EXCEPT !.pc[p] = "done"]
    /\ UNCHANGED <<rules, nextTxId, pending>>

Callers == {1, 2}

InitConc == InitWith(NoRules)
NextConc == \/ \E req \in ConcCreateRequests : CreateTransaction(req, "none")
            \/ \E ordered \in RulesByPriority(rules) : ApplyRules(ordered, FALSE, "none")
            \/ \E id \in TxIds, c1 \in RaceCalls, c2 \in RaceCalls : StartRace(id, c1, c2)
            \/ \E p \in Callers : ReadTx(p)
            \/ \E p \in Callers : RunTx(p)

SpecConc == InitConc /\ [][NextConc]_vars

\* what the two calls of a race leave when run one after the other
SerialCall(db, id, call) == IF call.op = "update" THEN update_transaction(db, id, call.req, "none").db ELSE delete_transaction(db, id, "none").db
SerialOutcomes == {SerialCall(SerialCall(race.start, race.id, race.calls[1]), race.id, race.calls[2]), SerialCall(SerialCall(race.start, race.id, race.calls[2]), race.id, race.calls[1])}
RaceDone == race.active /\ \A p \in Callers : race.pc[p] = "done"

(* ------------------- overlapping category resolution ------------------- *)
\* Two handlers that name a category overlap.  find_or_create_category runs
\* on the pool: its SELECT (lines 27-30) is one step, its INSERT (lines
\* 53-71) and the rest of the handler a later one.
\* SELECT * FROM categories WHERE name = $1
find_category(cats, name) == IF CategoriesNamed(cats, name) # {} THEN Some(CHOOSE c \in CategoriesNamed(cats, name) : TRUE) ELSE None

\* INSERT INTO categories under the unique index idx_categories_name
insert_category_no_index(cats, name) == [ok |-> TRUE, categories |-> create_category(cats, name).categories]
insert_category(cats, name) == IF CategoriesNamed(cats, name) # {} THEN [ok |-> FALSE, categories |-> cats] ELSE [ok |-> TRUE, categories |-> create_category(cats, name).categories]

CategoryNames == {Food, Dining}
CreateCall(req) == [op |-> "create", id |-> 0, req |-> req]
UpdateCategoryCall(id, req) == [op |-> "update", id |-> id, req |-> req]
CategoryCreateRequests == {[CreateRequest(AccountA, <<Some(AccountB), None>>, MaxAmt) EXCEPT !.category = c] : c \in CategoryNames}
CategoryUpdateRequests == {[EmptyUpdateRequest EXCEPT !.category = Some(c)] : c \in CategoryNames}
CategoryCalls == {CreateCall(req) : req \in CategoryCreateRequests} \cup {UpdateCategoryCall(id, req) : id \in TxIds, req \in CategoryUpdateRequests}
CategoryOf(call) == IF call.op = "create" THEN call.req.category ELSE Unwrap(call.req.category)
Creates(calls) == Cardinality({p \in DOMAIN calls : calls[p].op = "create"})

\* two requests arrive
StartResolve(c1, c2) ==
    /\ pending = None
    /\ ~race.active \/ \A p \in DOMAIN race.pc : race.pc[p] = "done"
    /\ nextTxId + Creates(<<c1, c2>>) - 1 <= MaxTxns
    /\ \A c \in {c1, c2} : c.op = "update" => c.id \in DOMAIN transactions
    /\ race' = [active |-> TRUE, id |-> 0, calls |-> <<c1, c2>>, pc |-> <<"lookup", "lookup">>, orig |-> <<None, None>>, start |-> DB]
    /\ UNCHANGED <<accounts, transactions, categories, rules, nextTxId, pending, last>>

\* the resolver's SELECT
LookupCategory(p) ==
    /\ race.active
    /\ race.pc[p] = "lookup"
    /\ race' = [race EXCEPT !.orig[p] = find_category(categories, CategoryOf(race.calls[p])), !.pc[p] = "finish"]
    /\ UNCHANGED <<accounts, transactions, categories, rules, nextTxId, pending, last>>

\* the resolver's INSERT when the SELECT found nothing, and the rest of the
\* handler: create aborts on a resolver error (line 265), update falls back
\* to the name (lines 467-476)
FinishCall(p) ==
    /\ race.active
    /\ race.pc[p] = "finish"
    /\ \E call \in {race.calls[p]} :
       \E ins \in {IF IsSome(race.orig[p]) THEN [ok |-> TRUE, categories |-> categories] ELSE insert_category(categories, CategoryOf(call))} :
       \E out \in {IF call.op = "create" THEN create_transaction([DB EXCEPT !.categories = ins.categories], call.req, IF ins.ok THEN "none" ELSE "category", nextTxId)
                   ELSE update_transaction([DB EXCEPT !.categories = ins.categories], call.id, call.req, IF ins.ok THEN "none" ELSE "category")} :
           /\ Install(out.db)
           /\ nextTxId' = IF call.op = "create" /\ out.res.ok THEN nextTxId + 1 ELSE nextTxId
           /\ last' = Last(call.op, IF call.op = "create" THEN nextTxId ELSE call.id, IF call.op = "create" THEN NoReq ELSE call.req, IF ins.ok THEN "none" ELSE "category", out.res)
    /\ race' = [race EXCEPT !.pc[p] = "done"]
    /\ UNCHANGED <<rules, pending>>

InitCategories == InitWith(NoRules)
NextCategories == \/ \E req \in CategoryCreateRequests : CreateTransaction(req, "none")
                  \/ \E id \in TxIds, req \in CategoryUpdateRequests : UpdateTransaction(id, req, "none")
                  \/ \E ordered \in RulesByPriority(rules) : ApplyRules(ordered, FALSE, "none")
                  \/ \E c1 \in CategoryCalls, c2 \in CategoryCalls : StartResolve(c1, c2)
                  \/ \E p \in Callers : LookupCategory(p)
                  \/ \E p \in Callers : FinishCall(p)

SpecCategories == InitCategories /\ [][NextCategories]_vars
(* =============================== claims ================================ *)
RECURSIVE SumOver(_, _)
SumOver(S, f) == IF S = {} THEN 0 ELSE LET x == CHOOSE y \in S : TRUE IN f[x] + SumOver(S \ {x}, f)
TotalBalance(accts) == SumOver(DOMAIN accts, [a \in DOMAIN accts |-> accts[a].balance])

\* balance an account started with: the accounts table of Init, 0 for an
\* External account synthesized by the ledger
InitialBalance(a) == IF a \in DOMAIN InitAccounts THEN InitAccounts[a].balance ELSE 0

\* signed effect of a live transaction on an account
Effect(t, a) == (IF a = t.source_account_id THEN -t.amount ELSE 0) + (IF a = t.destination_account_id THEN t.amount ELSE 0)
LedgerEffect(txns, a) == SumOver(DOMAIN txns, [i \in DOMAIN txns |-> Effect(txns[i], a)])

\* C1: after any sequence of create/update/delete the sum of all account
\* balances equals the sum of the initial balances (every committed mutation
\* applies a zero-sum pair of deltas; synthesized accounts start at 0).
BalanceConservation == TotalBalance(accounts) = TotalBalance(InitAccounts)

\* a delete has committed while another account was synthesized and some
\* balance differs from its initial value
BalanceConservationWitness == /\ last.op = "delete" /\ last.ok /\ last.val = TRUE
                              /\ DOMAIN transactions # {}
                              /\ \E a \in DOMAIN accounts : a \notin DOMAIN InitAccounts /\ accounts[a].balance # 0

\* C2: after any series of sequential calls every account's balance is its
\* initial balance plus the signed effects of the live transactions.
BalancesMatchLedger == \A a \in DOMAIN accounts : accounts[a].balance = InitialBalance(a) + LedgerEffect(transactions, a)

\* two live transactions share the source account after an update that set
\* an amount and a delete-free history left both rows in place
BalancesMatchLedgerWitness == /\ last.op = "update" /\ last.ok /\ "amount" \in last.fields
                              /\ Cardinality(DOMAIN transactions) = 2
                              /\ \A i \in DOMAIN transactions : transactions[i].amount # 0 /\ transactions[i].source_account_id # transactions[i].destination_account_id
                              /\ transactions[1].destination_account_id # transactions[2].destination_account_id
                              /\ transactions[1].amount < 0

\* C3: changing only the amount of a transaction from a to b leaves the
\* balances that deleting it and creating it anew with amount b leaves, and
\* moves each account by (a - b) for the source leg plus (b - a) for the
\* destination leg.
AmountPatch(b) == [EmptyUpdateRequest EXCEPT !.amount = Some(b)]
RecreateRequest(t, b) == [source_account_id |-> t.source_account_id, destination_account_id |-> Some(t.destination_account_id), destination_name |-> t.destination_name, description |-> t.description, amount |-> b, category |-> t.category, budget_id |-> t.budget_id, transaction_date |-> Some(t.transaction_date)]
ReversalCorrectness ==
    \A id \in DOMAIN transactions, b \in FiniteAmounts :
        LET t == transactions[id]
            updated == update_transaction(DB, id, AmountPatch(b), "none")
            deleted == delete_transaction(DB, id, "none")
            recreated == create_transaction(deleted.db, RecreateRequest(t, b), "none", nextTxId)
        IN  /\ updated.res.ok
            /\ updated.db.accounts = recreated.db.accounts
            /\ \A x \in DOMAIN accounts : updated.db.accounts[x].balance = accounts[x].balance + (IF x = t.source_account_id THEN t.amount - b ELSE 0) + (IF x = t.destination_account_id THEN b - t.amount ELSE 0)

\* an update carrying only an amount has turned a transaction between two
\* different accounts negative
ReversalCorrectnessWitness == /\ last.op = "update" /\ last.ok /\ last.fields = {"amount"}
                              /\ IsSome(last.val)
                              /\ Unwrap(last.val).amount < 0
                              /\ Unwrap(last.val).source_account_id # Unwrap(last.val).destination_account_id
                              /\ accounts[Unwrap(last.val).source_account_id].balance > InitialBalance(Unwrap(last.val).source_account_id)

\* C4: every committed transaction has source_account_id different from
\* destination_account_id.
SourceDiffersFromDestination == \A i \in DOMAIN transactions : transactions[i].source_account_id # transactions[i].destination_account_id

\* C5: every committed transaction has a finite, non-zero amount.
AmountsFiniteNonZero == \A i \in DOMAIN transactions : is_finite(transactions[i].amount) /\ transactions[i].amount # 0

\* C6: a create_transaction rejected by validation (amount zero or not
\* finite, or source equal to destination) leaves the transactions, the
\* accounts and the categories as they were.
RejectedCreateWritesNothing == [][(last'.op = "create" /\ last'.err \in {"InvalidAmount", "SameAccount"}) => (accounts' = accounts /\ transactions' = transactions /\ categories' = categories)]_vars

\* C7: a create_transaction that fails at any step after category
\* resolution leaves no transaction row, no synthesized account and no
\* balance change.
NoPartialWrites ==
    \A req \in CreateRequests, fault \in {"none", "lookup", "row", "balance"} :
        LET out == create_transaction(DB, req, fault, nextTxId)
        IN  ~out.res.ok => (out.db.transactions = transactions /\ out.db.accounts = accounts)

\* a create naming the unseen destination "Coffee Shop" failed at the row
\* insert or at a balance update: the category it resolved exists, the
\* account it had inserted does not
NoPartialWritesWitness == /\ last.op = "create" /\ ~last.ok /\ last.fault \in {"row", "balance"}
                          /\ CategoriesNamed(categories, Food) # {}
                          /\ AccountsNamed(accounts, CoffeeShop) = {}
                          /\ transactions = <<>>

\* C8: two overlapping calls among update_transaction and delete_transaction
\* on one transaction id leave the accounts and the transaction table that
\* one of the two serial orders of the calls leaves.
OverlappingCallsSerialized == RaceDone => DB \in SerialOutcomes

\* C9: in every state in which no call is in flight, the live transaction
\* rows are exactly those whose source-side and destination-side deltas the
\* account balances carry.
RowsAndDeltasVisibleTogether == (~race.active \/ RaceDone) => \A a \in DOMAIN accounts : accounts[a].balance - InitialBalance(a) = LedgerEffect(transactions, a)

\* C10: the rule-driven follow-up write leaves every account balance, the
\* set of accounts and the transaction's amount, source and destination
\* account ids as the first ledger write left them.
RuleFollowUpKeepsLedger == [][(pending # None /\ pending' = None) => (accounts' = accounts /\ \A i \in DOMAIN transactions : i \in DOMAIN transactions' /\ transactions'[i].amount = transactions[i].amount /\ transactions'[i].source_account_id = transactions[i].source_account_id /\ transactions'[i].destination_account_id = transactions[i].destination_account_id)]_vars

\* C11: deleting the transaction a create_transaction just returned removes
\* the row and restores every account that existed before the create to the
\* balance it had then, for positive and negative amounts.
DeleteInvertsCreate ==
    \A req \in CreateRequests :
        LET created == create_transaction(DB, req, "none", nextTxId)
            deleted == delete_transaction(created.db, nextTxId, "none")
        IN  created.res.ok => /\ deleted.res.ok /\ deleted.res.val = TRUE
                              /\ nextTxId \notin DOMAIN deleted.db.transactions
                              /\ \A a \in DOMAIN accounts : deleted.db.accounts[a].balance = accounts[a].balance

\* a negative transaction to a synthesized account was created and then
\* deleted: no row is left and the accounts are back at their first balances
DeleteInvertsCreateWitness == /\ last.op = "delete" /\ last.ok /\ last.val = TRUE
                              /\ DOMAIN transactions = {}
                              /\ AccountsNamed(accounts, CoffeeShop) # {}
                              /\ \A a \in DOMAIN accounts : accounts[a].balance = InitialBalance(a)

\* C12: on a transaction id that is not stored, delete_transaction returns
\* false and update_transaction returns None, and neither changes a
\* transaction row, an account row or a balance.
AbsentIdIsNoOp ==
    \A id \in TxIds \ DOMAIN transactions :
        /\ delete_transaction(DB, id, "none") = Outcome(DB, Ok(FALSE))
        /\ \A req \in UpdateRequests : update_transaction(DB, id, req, "none") = Outcome(DB, Ok(None))

\* an update carrying fields was called on an id that is not stored while
\* another transaction is, and returned None
AbsentIdIsNoOpWitness == /\ last.op = "update" /\ last.ok /\ last.val = None
                         /\ last.fields # {}
                         /\ last.id \notin DOMAIN transactions
                         /\ DOMAIN transactions # {}

\* C13: a create_transaction without a destination id looks up the
\* destination_name, or the description when no name is given; an account of
\* exactly that name becomes the destination and none is created; otherwise
\* exactly one External account of that name is created with balance 0 and
\* ends with the amount as its balance.
LookupName(req) == IF IsSome(req.destination_name) THEN Unwrap(req.destination_name) ELSE req.description
DestinationResolvedByName ==
    \A req \in {r \in NameCreateRequests : ~IsSome(r.destination_account_id)} :
        LET out == create_transaction(DB, req, "none", nextTxId)
            dest == out.res.val.destination_account_id
            created == DOMAIN out.db.accounts \ DOMAIN accounts
        IN  out.res.ok =>
                IF AccountsNamed(accounts, LookupName(req)) # {}
                THEN /\ created = {}
                     /\ dest \in AccountsNamed(accounts, LookupName(req))
                     /\ out.db.accounts[dest].balance = accounts[dest].balance + req.amount
                ELSE /\ created = {dest}
                     /\ out.db.accounts[dest] = [name |-> LookupName(req), account_type |-> "External", balance |-> req.amount]

\* a create that named neither a destination id nor a destination name has
\* synthesized an External account named after its description, and a later
\* create of the same description has reused it
DestinationResolvedByNameWitness == /\ last.op = "create" /\ last.ok
                                    /\ Cardinality(AccountsNamed(accounts, Coffee)) = 1
                                    /\ Cardinality(DOMAIN transactions) = 2
                                    /\ \A i \in DOMAIN transactions : transactions[i].destination_account_id \in AccountsNamed(accounts, Coffee)

\* C14: the destination_name stored on every transaction is the name of
\* the account its destination_account_id refers to, however the create or
\* update named the destination (by id, by name, or by both).
DestinationNameInSync == \A i \in DOMAIN transactions : transactions[i].destination_account_id \in DOMAIN accounts /\ transactions[i].destination_name = Some(accounts[transactions[i].destination_account_id].name)

\* C15: an operation of the account service (create_account, update_account)
\* changes no balance and leaves no live transaction whose two-sided effect
\* the balances do not carry: over such a step every account's balance moves
\* by exactly the change of the ledger's effect on it (a new account counts
\* from 0).
BalanceBefore(a) == IF a \in DOMAIN accounts THEN accounts[a].balance ELSE 0
OnlyLedgerMovesBalances == [][last'.op \in {"create_account", "update_account"} => \A a \in DOMAIN accounts' : accounts'[a].balance - BalanceBefore(a) = LedgerEffect(transactions', a) - LedgerEffect(transactions, a)]_vars

\* C16: the orchestrator's rule step always returns success; when it
\* returns the transaction of the first ledger write (rule evaluation
\* failed, nothing matched, or the follow-up update failed or found no row)
\* the accounts and the transaction rows are exactly as the first write left
\* them, and otherwise it returns the row the follow-up update stored.
RulesAreBestEffort == [][(pending # None /\ pending' = None) => (last'.ok /\ IsSome(last'.val) /\ (Unwrap(last'.val) = Unwrap(pending).transaction => (accounts' = accounts /\ transactions' = transactions)) /\ (Unwrap(last'.val) # Unwrap(pending).transaction => transactions'[Unwrap(pending).id] = Unwrap(last'.val)))]_vars

\* a rule produced a patch carrying a category, the follow-up update failed
\* at the row write or at a balance update, and the stored row still has the
\* category of the first write
RulesAreBestEffortWitness == /\ last.op = "rules" /\ last.fault \in {"row", "balance"}
                             /\ "category" \in last.fields
                             /\ last.ok /\ IsSome(last.val)
                             /\ last.id \in DOMAIN transactions
                             /\ transactions[last.id].category = Food
                             /\ transactions[last.id] = Unwrap(last.val)

\* C17: for a fixed rules table and a fixed transaction every evaluation
\* returns the same patch: the active rules are taken by ascending priority
\* and, at equal priority, by ascending name, so that of two matching rules
\* of equal priority setting one field the later name's value is returned.
RuleFoldDeterministic == \A i \in DOMAIN transactions : \A o1, o2 \in RulesByPriority(rules) : apply_rules_to_transaction(o1, transactions[i]) = apply_rules_to_transaction(o2, transactions[i])

\* C18: the patch evaluate returns carries, for each of category, budget
\* id, description and destination name, the value written by the last
\* action setting that field among all active rules whose conditions all
\* hold, in evaluation order (no stop at the first match); a field no such
\* rule sets is absent.
PatchFields == {"category", "budget_id", "description", "destination_name"}
ActionField(action) == CASE action.action_type = "set_category" -> "category" [] action.action_type = "set_budget" -> "budget_id" [] action.action_type = "set_description" -> "description" [] action.action_type = "set_destination_name" -> "destination_name"
ActionValue(action) == IF action.action_type = "set_budget" THEN ParseUuid(action.value) ELSE Some(action.value)
Setters(ordered, t, f) == {ij \in (DOMAIN ordered) \X (1 .. 3) : /\ ij[2] \in DOMAIN ordered[ij[1]].actions
                                                                 /\ ordered[ij[1]].is_active /\ ordered[ij[1]].conditions_parse /\ ordered[ij[1]].actions_parse
                                                                 /\ \A c \in DOMAIN ordered[ij[1]].conditions : ConditionHolds(ordered[ij[1]].conditions[c], t)
                                                                 /\ ActionField(ordered[ij[1]].actions[ij[2]]) = f
                                                                 /\ IsSome(ActionValue(ordered[ij[1]].actions[ij[2]]))}
LastSetter(S) == CHOOSE ij \in S : \A kl \in S : kl[1] < ij[1] \/ (kl[1] = ij[1] /\ kl[2] <= ij[2])
ExpectedField(ordered, t, f) == IF Setters(ordered, t, f) = {} THEN None ELSE ActionValue(ordered[LastSetter(Setters(ordered, t, f))[1]].actions[LastSetter(Setters(ordered, t, f))[2]])
PatchOf(r) == IF IsSome(r) THEN Unwrap(r) ELSE EmptyUpdateRequest
FoldsAllMatchingRules == \A i \in DOMAIN transactions, ordered \in RulesByPriority(rules), f \in PatchFields : PatchOf(apply_rules_to_transaction(ordered, transactions[i]))[f] = ExpectedField(ordered, transactions[i], f)

\* with rules of priority 1, 3 and 4 matching, the patch carried the
\* category and the description of the priority-3 rule (its last
\* set_description) and the budget of the priority-4 rule, and was stored
FoldsAllMatchingRulesWitness == /\ {RuleDining, RuleOverride, RuleInactive, RuleFalse, RuleAll} \subseteq rules
                                /\ last.op = "rules" /\ last.ok
                                /\ last.fields = {"category", "description", "budget_id"}
                                /\ last.id \in DOMAIN transactions
                                /\ transactions[last.id].category = Groceries
                                /\ transactions[last.id].description = NameB
                                /\ transactions[last.id].budget_id = Some(1)

\* C19: evaluate returns Some(patch) only if the patch sets at least one of
\* category, budget id, description, destination name; when no rule matches,
\* or the matching rules' actions set nothing, it returns None.
NoEmptyPatch == \A i \in DOMAIN transactions, ordered \in RulesByPriority(rules) : IsSome(apply_rules_to_transaction(ordered, transactions[i])) => \E f \in PatchFields : IsSome(Unwrap(apply_rules_to_transaction(ordered, transactions[i]))[f])

ApplyToAllKeepsLedger == [][last'.op \in {"apply_rule_to_all", "apply_all_rules"} => (accounts' = accounts /\ DOMAIN transactions' = DOMAIN transactions /\ \A i \in DOMAIN transactions : (transactions'[i].amount = transactions[i].amount /\ transactions'[i].source_account_id = transactions[i].source_account_id /\ transactions'[i].destination_account_id = transactions[i].destination_account_id))]_vars

\* a run over all active rules has written both stored transactions, one
\* of them now carrying the category a rule set
ApplyToAllKeepsLedgerWitness == /\ last.op = "apply_all_rules" /\ last.ok /\ last.val = 2
                                /\ Cardinality(DOMAIN transactions) = 2
                                /\ \E i \in DOMAIN transactions : transactions[i].category = Groceries /\ transactions[i].amount = MaxAmt

\* C22: a rule whose stored conditions or actions do not deserialize is
\* skipped: for every order the store may return the active rules in,
\* evaluating a stored transaction gives the patch it gives with the
\* malformed rules removed from the list, and apply-all over the store
\* persists the same rows and reports the same successful count.
Malformed(rule) == ~rule.conditions_parse \/ ~rule.actions_parse
WellFormedOnly(ordered) == SelectSeq(ordered, LAMBDA rule : ~Malformed(rule))
MalformedRulesSkipped == \A ordered \in RulesByPriority(rules) : /\ \A i \in DOMAIN transactions : apply_rules_to_transaction(ordered, transactions[i]) = apply_rules_to_transaction(WellFormedOnly(ordered), transactions[i])
                                                                 /\ apply_all_rules_to_all_transactions(DB, ordered).res.ok
                                                                 /\ apply_all_rules_to_all_transactions(DB, ordered) = apply_all_rules_to_all_transactions(DB, WellFormedOnly(ordered))

\* apply-all has run over a table holding two malformed rules and a
\* well-formed one, and wrote the well-formed rule's category to a row whose
\* description and destination name the malformed rules would have changed
MalformedRulesSkippedWitness == /\ last.op = "apply_all_rules" /\ last.ok /\ last.val >= 1
                                /\ \E r \in rules : ~r.actions_parse
                                /\ \E r \in rules : ~r.conditions_parse
                                /\ \E i \in DOMAIN transactions : transactions[i].category = Dining /\ transactions[i].description = Coffee /\ transactions[i].destination_name # Some(NameB)

\* C23: test_conditions returns the number of all stored transactions that
\* satisfy every given condition, and as sample the first min(number, 100)
\* of them, latest transaction date first (no match left out is dated later
\* than a match in the sample); it changes no stored state.
Matches(conditions) == {i \in DOMAIN transactions : all_conditions_match(conditions, transactions[i])}
IsSampleOf(sample, matches) ==
    /\ \A k \in DOMAIN sample : sample[k] \in matches
    /\ \A k, m \in DOMAIN sample : k < m => (sample[k] # sample[m] /\ transactions[sample[k]].transaction_date >= transactions[sample[m]].transaction_date)
    /\ \A i \in matches : (\A k \in DOMAIN sample : sample[k] # i) => \A k \in DOMAIN sample : transactions[i].transaction_date <= transactions[sample[k]].transaction_date
UniqueCategoryNames(cats) == \A c1, c2 \in DOMAIN cats : cats[c1] = cats[c2] => c1 = c2
NamesCategory == \/ last'.op = "create" /\ last'.ok
                 \/ last'.op = "update" /\ last'.ok /\ IsSome(last'.val) /\ "category" \in last'.fields
KnownAtLookup(name) == IF race'.active /\ race' # race THEN \E p \in Callers : race.pc[p] = "finish" /\ race'.pc[p] = "done" /\ IsSome(race.orig[p]) ELSE CategoriesNamed(categories, name) # {}
IdempotentCategoryResolution == [][/\ UniqueCategoryNames(categories')
                                   /\ (NamesCategory /\ KnownAtLookup(transactions'[last'.id].category)) => (/\ categories' = categories
                                                                                                             /\ transactions'[last'.id].category_id = find_category(categories, transactions'[last'.id].category))]_vars

\* two overlapping creates named the same new category: both looked it up
\* before either inserted it, the first insert was stored and the second
\* call failed; the store holds the name once
IdempotentCategoryResolutionWitness == /\ race.active /\ \A p \in Callers : race.pc[p] = "done"
                                       /\ race.calls[1].op = "create" /\ race.calls[2].op = "create"
                                       /\ race.calls[1].req.category = race.calls[2].req.category
                                       /\ race.orig = <<None, None>>
                                       /\ race.start.categories = <<>>
                                       /\ last.op = "create" /\ ~last.ok /\ last.fault = "category"
                                       /\ Cardinality(DOMAIN categories) = 1
                                       /\ Cardinality(DOMAIN transactions) = 1

\* C25: the source account of a transaction never changes: no step (a
\* direct update, the rule-driven follow-up write, a run of apply-to-all)
\* changes the source_account_id of a transaction that stays stored, so a
\* live transaction has the source it was created with.
SourceAccountImmutable == [][\A i \in DOMAIN transactions \cap DOMAIN transactions' : transactions'[i].source_account_id = transactions[i].source_account_id]_vars

\* apply-to-all has just written a transaction that a direct update had
\* given a new description and a rule's budget; its source is the account
\* of the create request
SourceAccountImmutableWitness == /\ last.op = "apply_all_rules" /\ last.ok /\ last.val >= 1
                                 /\ \E i \in DOMAIN transactions : /\ transactions[i].description = NameB
                                                                   /\ transactions[i].budget_id = Some(1)
                                                                   /\ transactions[i].source_account_id = AccountA

\* C26: a category-resolver failure aborts the ledger mutation it occurs
\* in: a create, or an update of a stored transaction whose patch names a
\* category, during which category resolution fails returns a storage error
\* and changes no transaction and no balance.
ResolverFailureAborts == [][(last'.fault = "category" /\ (last'.op = "create" \/ (last'.op = "update" /\ last'.id \in DOMAIN transactions /\ "category" \in last'.fields))) => (/\ ~last'.ok
                                                                                                                                                                         /\ last'.err = "Storage"
                                                                                                                                                                         /\ transactions' = transactions
                                                                                                                                                                         /\ accounts' = accounts)]_vars

\* C27: an update that moves a transaction from destination D1 to a
\* different destination D2 (by id or by name) reverses the old effect on
\* D1 and applies the new effect to D2: D1 ends where it would be without
\* the transaction, D2 gains the new amount, the source has lost the new
\* amount instead of the old one; D2 is a new account exactly when the
\* request gave only a name that no account had, and that account is
\* External and started at 0.
MovesDestination == /\ last'.op = "update" /\ last'.ok /\ IsSome(last'.val)
                    /\ last'.id \in DOMAIN transactions
                    /\ transactions'[last'.id].destination_account_id # transactions[last'.id].destination_account_id
                    /\ transactions[last'.id].source_account_id \notin {transactions[last'.id].destination_account_id, transactions'[last'.id].destination_account_id}
DestinationMoved(t, u) ==
    /\ accounts'[t.destination_account_id].balance = accounts[t.destination_account_id].balance - Effect(t, t.destination_account_id)
    /\ accounts'[t.source_account_id].balance = accounts[t.source_account_id].balance + t.amount - u.amount
    /\ IF u.destination_account_id \in DOMAIN accounts
       THEN /\ accounts'[u.destination_account_id].balance = accounts[u.destination_account_id].balance + u.amount
            /\ DOMAIN accounts' = DOMAIN accounts
            /\ "destination_name" \in last'.fields /\ "destination_account_id" \notin last'.fields => accounts[u.destination_account_id].name = Unwrap(u.destination_name)
       ELSE /\ accounts'[u.destination_account_id] = [name |-> Unwrap(u.destination_name), account_type |-> "External", balance |-> u.amount]
            /\ DOMAIN accounts' = DOMAIN accounts \cup {u.destination_account_id}
            /\ last'.fields \cap {"destination_account_id", "destination_name"} = {"destination_name"}
            /\ AccountsNamed(accounts, Unwrap(u.destination_name)) = {}
DestinationChangeMovesEffect == [][MovesDestination => DestinationMoved(transactions[last'.id], transactions'[last'.id])]_vars

\* the only transaction ever created went to the account synthesized from
\* its description; an update naming "CoSh" has moved it to a newly created
\* account, which now holds its amount while the first one is back at 0
DestinationChangeMovesEffectWitness == /\ last.op = "update" /\ last.ok /\ last.fields = {"destination_name"}
                                       /\ nextTxId = 2 /\ DOMAIN transactions = {1}
                                       /\ \E d1 \in AccountsNamed(accounts, Coffee), d2 \in AccountsNamed(accounts, CoffeeShop) :
                                              /\ transactions[1].destination_account_id = d2
                                              /\ d1 < d2
                                              /\ accounts[d1].balance = 0
                                              /\ accounts[d2].balance = transactions[1].amount

\* C28: the orchestrator evaluates the rules only on the transaction a
\* committed first write returned, issues at most one follow-up write and
\* does not evaluate again on its result, so an orchestrated create or
\* update ends after at most two ledger writes; when the evaluation gives a
\* patch and the follow-up update succeeds, the transaction returned is the
\* follow-up's row and carries every value the patch set.
FollowsFirstWrite == /\ pending # None
                     /\ last.op \in {"create", "update"} /\ last.ok
                     /\ last.id = Unwrap(pending).id
                     /\ transactions[last.id] = Unwrap(pending).transaction
                     /\ pending' = None
ReturnsPatchedRow == \E ordered \in RulesByPriority(rules) :
                         LET patch == apply_rules_to_transaction(ordered, Unwrap(pending).transaction)
                             out == update_transaction(DB, Unwrap(pending).id, Unwrap(patch), last'.fault)
                         IN  IF IsSome(patch) /\ out.res.ok /\ IsSome(out.res.val)
                             THEN /\ last'.val = out.res.val
                                  /\ Unwrap(last'.val) = transactions'[last'.id]
                                  /\ IsSome(Unwrap(patch).category) => Unwrap(last'.val).category = Unwrap(Unwrap(patch).category)
                                  /\ IsSome(Unwrap(patch).description) => Unwrap(last'.val).description = Unwrap(Unwrap(patch).description)
                                  /\ IsSome(Unwrap(patch).budget_id) => Unwrap(last'.val).budget_id = Unwrap(patch).budget_id
                                  /\ IsSome(Unwrap(patch).destination_name) => Unwrap(last'.val).destination_name = Unwrap(patch).destination_name
                             ELSE last'.val = Some(Unwrap(pending).transaction)
OrchestratorOrdering == [][/\ last'.op = "rules" /\ last'.fault # "rules" => (FollowsFirstWrite /\ ReturnsPatchedRow)
                           /\ last'.op = "rules" => FollowsFirstWrite
                           /\ pending # None => (last'.op = "rules" /\ pending' = None)
                           /\ last.op = "rules" => last'.op # "rules"]_vars

\* a create of a "Co" transaction was followed by one rule-driven write;
\* the transaction returned has the category "Dining" the rule sets, and
\* no further evaluation is due
OrchestratorOrderingWitness == /\ last.op = "rules" /\ last.ok /\ last.fault = "none"
                               /\ "category" \in last.fields
                               /\ Unwrap(last.val).category = Dining
                               /\ transactions[last.id].category = Dining
                               /\ pending = None

\* C29: apply-to-all runs the fold of evaluate: for every order the store
\* may return the active rules in and every stored transaction t,
\* apply_all_rules_to_all_transactions leaves t with exactly the fields set
\* that evaluate's patch for t sets, and apply_rule_to_all_transactions
\* those of evaluate over that one rule alone (nothing, and a count of 0,
\* for an inactive rule; nothing for a rule that does not deserialize); a
\* transaction without a patch, or with a patch that sets no field, is left
\* as it is, and the count returned is the number of transactions written.
Persisted(t, patch) == IF ~IsSome(patch) THEN t ELSE [t EXCEPT !.category = IF IsSome(Unwrap(patch).category) THEN Unwrap(Unwrap(patch).category) ELSE @,
                                                               !.budget_id = IF IsSome(Unwrap(patch).budget_id) THEN Unwrap(patch).budget_id ELSE @,
                                                               !.description = IF IsSome(Unwrap(patch).description) THEN Unwrap(Unwrap(patch).description) ELSE @,
                                                               !.destination_name = IF IsSome(Unwrap(patch).destination_name) THEN Unwrap(patch).destination_name ELSE @]
NonEmptyPatch(patch) == IsSome(patch) /\ \E f \in PatchFields : IsSome(Unwrap(patch)[f])
SameFoldAs(out, evaluate(_)) ==
    /\ DOMAIN out.db.transactions = DOMAIN transactions
    /\ out.db.accounts = accounts
    /\ \A i \in DOMAIN transactions : out.db.transactions[i] = Persisted(transactions[i], evaluate(transactions[i]))
    /\ out.res.ok => out.res.val = Cardinality({i \in DOMAIN transactions : NonEmptyPatch(evaluate(transactions[i]))})
ApplyToAllRunsEvaluateFold ==
    /\ \A ordered \in RulesByPriority(rules) :
           LET evaluate(t) == apply_rules_to_transaction(ordered, t)
           IN  apply_all_rules_to_all_transactions(DB, ordered).res.ok /\ SameFoldAs(apply_all_rules_to_all_transactions(DB, ordered), evaluate)
    /\ \A rule \in rules :
           LET evaluate(t) == apply_rules_to_transaction(IF rule.is_active THEN <<rule>> ELSE <<>>, t)
           IN  /\ SameFoldAs(apply_rule_to_all_transactions(DB, rule), evaluate)
               /\ apply_rule_to_all_transactions(DB, rule).res.ok <=> (rule.conditions_parse /\ rule.actions_parse)
               /\ ~rule.is_active /\ rule.conditions_parse /\ rule.actions_parse => apply_rule_to_all_transactions(DB, rule) = Outcome(DB, Ok(0))

\* a run over two rules of equal priority wrote one of the two stored
\* transactions: the one still described "Co" has the category of the rule
\* that came last, the one a direct update had described "B" matched no
\* rule and was not written
ApplyToAllRunsEvaluateFoldWitness == /\ last.op = "apply_all_rules" /\ last.ok /\ last.val = 1
                                     /\ Cardinality(DOMAIN transactions) = 2
                                     /\ \E i, j \in DOMAIN transactions : /\ transactions[i].description = Coffee /\ transactions[i].category \in {Dining, Groceries}
                                                                          /\ transactions[j].description = NameB /\ transactions[j].category # transactions[i].category
                                     /\ RuleTieA \in rules

\* C30: category name and category id agree on every write path: in every
\* reachable state a transaction whose category_id is set names, in its
\* category field, the stored category that id references (after create,
\* update, the rule-driven follow-up write and apply-to-all).
CategoryIdMatchesName == \A i \in DOMAIN transactions : IsSome(transactions[i].category_id) => (/\ Unwrap(transactions[i].category_id) \in DOMAIN categories
                                                                                                /\ categories[Unwrap(transactions[i].category_id)] = transactions[i].category)

====
